---- MODULE Spec2Model ----
(***************************************************************************)
(* A model of pymu.py: the 64K Memory with its write-protected upper half, *)
(* the Flags, the Cpu whose run() generator suspends once per clock cycle, *)
(* and the Clock whose tick() resumes every registered generator once.     *)
(*                                                                         *)
(* Memory._ram is a zero-initialised bytearray(65536).  It is represented  *)
(* sparsely: a function whose domain is the set of addresses that hold a   *)
(* non-zero byte; every other address reads 0.  The array is a class       *)
(* attribute, so there is one `ram` however many Memory objects exist.     *)
(*                                                                         *)
(* A generator is represented by the yield it is suspended at (`at`) and   *)
(* by the locals of its frames that are live across that yield.            *)
(***************************************************************************)
EXTENDS Integers, Sequences, FiniteSets, TLC

VARIABLES ram, cpus, devices, tickpos, ticks, loaded, hist, last, budget,
          main

vars == <<ram, cpus, devices, tickpos, ticks, loaded, hist, last, budget,
          main>>

----------------------------------------------------------------------------
(* Bounds of the exploration *)

MaxTicks == 12
MaxCpus == 2
MaxLoads == 2
MaxWrites == 1
MaxLiveTicks == 16

----------------------------------------------------------------------------
(* Constants of the program *)

RamSize == 65536
WriteLimit == 32768
OsBase == 49152
ResetVector == 65532
OP_LDA_IMM == 169
OP_STA_ABS == 141
OP_SEI == 120
OP_CLD == 216
RomSize == 16384
MainCycles == 10000

Min(p, q) == IF p < q THEN p ELSE q

EmptyRam == [z \in {} |-> 0]

----------------------------------------------------------------------------
(* Memory *)

\* self._ram[index] = value on the bytearray: a negative index counts from
\* the end; a zero byte is represented by absence from the domain.
SetItem(m, index, value) ==
    LET i == IF index < 0 THEN index + RamSize ELSE index
    IN  [z \in (DOMAIN m \cup {i}) \ (IF value = 0 THEN {i} ELSE {}) |->
            IF z = i THEN value ELSE m[z]]

read_byte(m, offset) ==
    LET i == offset % RamSize
    IN  IF i \in DOMAIN m THEN m[i] ELSE 0

\* read_word with the two bytes taken in big-endian order
read_word_big_endian(m, offset) ==
    256 * read_byte(m, offset) + read_byte(m, offset + 1)

read_word(m, offset) == read_byte(m, offset) + 256 * read_byte(m, offset + 1)

\* write_byte whose guard lets 0x8000 through
write_byte_inclusive(m, offset, value) ==
    IF offset <= WriteLimit THEN SetItem(m, offset, value) ELSE m

\* write_byte whose guard stops one address early
write_byte_short(m, offset, value) ==
    IF offset < WriteLimit - 1 THEN SetItem(m, offset, value) ELSE m

write_byte(m, offset, value) ==
    IF offset < WriteLimit THEN SetItem(m, offset, value) ELSE m

\* An image is [len, bytes]: bytes maps the offsets that are listed to their
\* byte, every other offset below len holds 0.
ImageByte(data, i) == IF i \in DOMAIN data.bytes THEN data.bytes[i] ELSE 0

\* for i in range(len(data)): self._ram[0xc000 + i] = data[i]
\* The assignment at index 65536 or beyond raises IndexError; the bytes
\* before it have been copied by then.
load_os(m, data) ==
    LET n == Min(data.len, RamSize - OsBase)
        kept == {z \in DOMAIN m : z < OsBase \/ z >= OsBase + n}
        set == {OsBase + i : i \in {j \in DOMAIN data.bytes :
                                      j < n /\ data.bytes[j] # 0}}
    IN  [z \in kept \cup set |->
            IF z \in set THEN data.bytes[z - OsBase] ELSE m[z]]

load_os_raises(data) == data.len > RamSize - OsBase

\* load_rom that rejects only the images that are too short
load_rom_raises_if_short(data) == data.len < RomSize

\* load_rom: if len(data) != 0x4000: raise RuntimeError
load_rom_raises(data) == data.len # RomSize

----------------------------------------------------------------------------
(* Flags and Cpu *)

\* A Python bool as the integer it is: True == 1, False == 0
PyBool(b) == IF b THEN 1 ELSE 0

\* (value & 0x80) != 0
Bit7(value) == (value \div 128) % 2 = 1

\* Flags.setzn: zero is a bool, negative is the integer value & 0x80
\* (False is the integer 0).
setzn_zero(value) == value = 0

setzn_negative(value) == ((value \div 128) % 2) * 128

\* Cpu.__init__ on a Memory
NewCpuState(m) ==
    [a |-> 0, x |-> 0, y |-> 0, s |-> 0,
     pc |-> read_word(m, ResetVector),
     zero |-> FALSE, negative |-> 0, irq_disable |-> FALSE, decimal |-> FALSE,
     at |-> "start", opcode |-> 0, result |-> 0, low_addr |-> 0]

Handled == {OP_LDA_IMM, OP_STA_ABS, OP_SEI, OP_CLD}

Outcome(c, m, e) == [cpu |-> c, ram |-> m, exc |-> e]

\* run(): opcode = read_byte(pc); pc += 1; yield
Fetch(c, m) ==
    Outcome([c EXCEPT !.opcode = read_byte(m, c.pc), !.pc = c.pc + 1,
                      !.at = "run_yield", !.result = 0, !.low_addr = 0],
            m, "none")

\* _read_pc up to its yield: result = read_byte(pc)
ReadPcBegin(c, m, where) ==
    [c EXCEPT !.result = read_byte(m, c.pc), !.at = where]

\* _unknown that steps over the opcode's operand before raising
unknown_advancing(c, m) ==
    Outcome([c EXCEPT !.pc = c.pc + 1, !.at = "closed"], m, "RuntimeError")

\* _unknown that returns as a settle cycle instead of raising
unknown_ignored(c, m) == Outcome([c EXCEPT !.at = "sei_yield"], m, "none")

\* _unknown: raise RuntimeError; the exception closes the generator
unknown(c, m) == Outcome([c EXCEPT !.at = "closed"], m, "RuntimeError")

\* _lda_imm up to the yield inside _read_pc
lda_imm(c, m) == Outcome(ReadPcBegin(c, m, "lda_read"), m, "none")

\* _sta_abs up to the yield inside the first _read_pc of _read_pc_addr
sta_abs(c, m) == Outcome(ReadPcBegin(c, m, "sta_read_low"), m, "none")

\* _sei that only spends its cycle
sei_without_effect(c, m) == Outcome([c EXCEPT !.at = "sei_yield"], m, "none")

\* _sei: irq_disable = True; yield
sei(c, m) ==
    Outcome([c EXCEPT !.irq_disable = TRUE, !.at = "sei_yield"], m, "none")

\* _cld that clears the whole status register
cld_clearing_irq(c, m) ==
    Outcome([c EXCEPT !.decimal = FALSE, !.irq_disable = FALSE,
                      !.at = "cld_yield"], m, "none")

\* _cld with the flag value inverted
cld_setting_decimal(c, m) ==
    Outcome([c EXCEPT !.decimal = TRUE, !.at = "cld_yield"], m, "none")

\* _cld: decimal = False; yield
cld(c, m) ==
    Outcome([c EXCEPT !.decimal = FALSE, !.at = "cld_yield"], m, "none")

\* A dispatch table whose entry 0x00 is a one-cycle handler without effect
Dispatch_zero_settles(c, m) ==
    CASE c.opcode = OP_LDA_IMM -> lda_imm(c, m)
      [] c.opcode = OP_STA_ABS -> sta_abs(c, m)
      [] c.opcode = OP_SEI -> sei(c, m)
      [] c.opcode = OP_CLD -> cld(c, m)
      [] c.opcode = 0 -> Outcome([c EXCEPT !.at = "cld_yield"], m, "none")
      [] OTHER -> unknown(c, m)

\* run() resumed after its yield: yield from self._handlers[opcode](opcode),
\* up to the first yield of the handler.  _handlers is 256 * [_unknown] with
\* the four entries of __init__ replaced.
Dispatch(c, m) ==
    CASE c.opcode = OP_LDA_IMM -> lda_imm(c, m)
      [] c.opcode = OP_STA_ABS -> sta_abs(c, m)
      [] c.opcode = OP_SEI -> sei(c, m)
      [] c.opcode = OP_CLD -> cld(c, m)
      [] OTHER -> unknown(c, m)

\* _lda_imm resumed inside _read_pc: pc += 1; return result;
\* self._a = self._setzn(imm); yield
LdaEffect(c, m) ==
    Outcome([c EXCEPT !.pc = c.pc + 1,
                      !.zero = setzn_zero(c.result),
                      !.negative = setzn_negative(c.result),
                      !.a = c.result % 256,
                      !.result = 0,
                      !.at = "lda_yield"], m, "none")

\* _read_pc_addr between its two _read_pc: pc += 1; low_addr = result;
\* second _read_pc up to its yield
StaReadHigh(c, m) ==
    LET c1 == [c EXCEPT !.pc = c.pc + 1, !.low_addr = c.result]
    IN  Outcome(ReadPcBegin(c1, m, "sta_read_high"), m, "none")

\* _sta_abs whose store is not applied in its cycle-step
StaEffect_deferred(c, m) ==
    Outcome([c EXCEPT !.pc = c.pc + 1, !.result = 0, !.low_addr = 0,
                      !.at = "sta_yield"], m, "none")

\* _sta_abs storing at the address with its two bytes swapped
StaEffect_swapped(c, m) ==
    LET addr == 256 * c.low_addr + c.result
    IN  Outcome([c EXCEPT !.pc = c.pc + 1, !.result = 0, !.low_addr = 0,
                          !.at = "sta_yield"],
                write_byte(m, addr, c.a), "none")

\* pc += 1; addr = low_addr + 256 * high_addr; write_byte(addr, a); yield
StaEffect(c, m) ==
    LET addr == c.low_addr + 256 * c.result
    IN  Outcome([c EXCEPT !.pc = c.pc + 1, !.result = 0, !.low_addr = 0,
                          !.at = "sta_yield"],
                write_byte(m, addr, c.a), "none")

\* next() on the generator of Cpu.run()
NextRun(c, m) ==
    CASE c.at = "closed" -> Outcome(c, m, "StopIteration")
      [] c.at = "run_yield" -> Dispatch(c, m)
      [] c.at = "lda_read" -> LdaEffect(c, m)
      [] c.at = "sta_read_low" -> StaReadHigh(c, m)
      [] c.at = "sta_read_high" -> StaEffect(c, m)
      [] OTHER -> Fetch(c, m)

\* The array a second Memory object reads: it has no _ram of its own, the
\* attribute lookup ends at the class attribute.
OtherMemory == ram

----------------------------------------------------------------------------
(* Inputs *)

At(off, bs) == [i \in off..(off + Len(bs) - 1) |-> bs[i - off + 1]]

Vector(lo, hi) == (16380 :> lo) @@ (16381 :> hi)

\* LDA #0x42; STA 0x0000 at 0xC000, reset vector 0xC000
ImgScenario ==
    [len |-> 16384,
     bytes |-> At(0, <<169, 66, 141, 0, 0>>) @@ Vector(0, 192)]

\* 0xC000: SEI; CLD; LDA #0x80; STA 0x8000.  0xC010: an unmapped opcode.
\* reset vector 0xC010
ImgBadEntry ==
    [len |-> 16384,
     bytes |-> At(0, <<120, 216, 169, 128, 141, 0, 128>>) @@ At(16, <<2>>)
               @@ Vector(16, 192)]

\* 0xC000: an unmapped opcode.  0xC010: LDA #0x42; STA 0x0001; LDA #0; SEI.
\* reset vector 0xC010
ImgGoodEntry ==
    [len |-> 16384,
     bytes |-> At(0, <<255>>) @@ At(16, <<169, 66, 141, 1, 0, 169, 0, 120>>)
               @@ Vector(16, 192)]

\* 0xFFFE: SEI; CLD, and then the program counter passes 0xFFFF.
\* 0xC010: LDA #0x42; STA 0x0001.  reset vector 0xFFFE
ImgWrap ==
    [len |-> 16384,
     bytes |-> At(16, <<169, 66, 141, 1, 0>>) @@ At(16382, <<120, 216>>)
               @@ Vector(254, 255)]

Images == {ImgScenario, ImgBadEntry, ImgGoodEntry, ImgWrap}

\* Images whose last two bytes are the program: reset vector 0xFFFE
TopBytes == {0, 120, 141, 169, 216}

TopImages ==
    {[len |-> 16384, bytes |-> At(16382, <<p, q>>) @@ Vector(254, 255)] :
        p \in TopBytes, q \in TopBytes}

\* The contents os.rom may have: the images, and files of other lengths
BadLengths == {0, 16383, 16385, 32768}

Files ==
    Images \cup TopImages
    \cup {[ImgScenario EXCEPT !.len = n] : n \in BadLengths}

WriteAddrs == {0, 32767, 32768, 65533}

WriteValues == {0, 66, 216}

----------------------------------------------------------------------------
(* Operations *)

NoOp == [op |-> "none", arg |-> 0, value |-> 0, exc |-> "none"]

Init ==
    /\ ram = EmptyRam
    /\ cpus = <<>>
    /\ devices = <<>>
    /\ tickpos = 0
    /\ ticks = 0
    /\ loaded = [len |-> 0, bytes |-> EmptyRam]
    /\ hist = <<>>
    /\ last = NoOp
    /\ budget = [loads |-> 0, writes |-> 0]
    /\ main = [pc |-> "idle", file |-> [len |-> 0, bytes |-> EmptyRam],
               exc |-> "none", where |-> "none"]

Running == devices # <<>>

\* memory.load_os(data)
LoadOs(data) ==
    /\ ~Running
    /\ budget.loads < MaxLoads
    /\ ram' = load_os(ram, data)
    /\ loaded' = data
    /\ last' = [op |-> "load_os", arg |-> 0, value |-> 0,
                exc |-> IF load_os_raises(data) THEN "IndexError" ELSE "none"]
    /\ budget' = [budget EXCEPT !.loads = @ + 1]
    /\ UNCHANGED <<main, cpus, devices, tickpos, ticks, hist>>

\* memory.write_byte(offset, value), called on the Memory directly
WriteByte(offset, value) ==
    /\ tickpos = 0
    /\ budget.writes < MaxWrites
    /\ ram' = write_byte(ram, offset, value)
    /\ last' = [op |-> "write_byte", arg |-> offset, value |-> value,
                exc |-> "none"]
    /\ budget' = [budget EXCEPT !.writes = @ + 1]
    /\ UNCHANGED <<main, cpus, devices, tickpos, ticks, loaded, hist>>

\* What is recorded about each generator: the number of next() calls made
\* on it and of those that returned at a yield (its cycle-steps), the step
\* and the address of its latest opcode fetch, the address and the step of
\* its latest write_byte call, the address its latest step passed to
\* read_byte (-1 when it read nothing), the number of LDA it has completed,
\* and the program counter it was constructed with.
NewHist(c) ==
    [calls |-> 0, steps |-> 0, fetch_step |-> 0, fetch_pc |-> 0,
     store_addr |-> -1, store_step |-> 0, read_addr |-> -1, loads |-> 0,
     reset_pc |-> c.pc]

StepHist(h, c, r) ==
    LET ok == r.exc = "none"
        fetched == ok /\ r.cpu.at = "run_yield"
    IN  [h EXCEPT !.calls = @ + 1,
                  !.steps = IF ok THEN @ + 1 ELSE @,
                  !.fetch_step = IF fetched THEN h.steps + 1 ELSE @,
                  !.fetch_pc = IF fetched THEN c.pc ELSE @,
                  !.store_addr = IF ok /\ r.cpu.at = "sta_yield"
                                 THEN c.low_addr + 256 * c.result ELSE @,
                  !.store_step = IF ok /\ r.cpu.at = "sta_yield"
                                 THEN h.steps + 1 ELSE @,
                  !.read_addr =
                      IF r.cpu.at \in {"run_yield", "lda_read",
                                       "sta_read_low", "sta_read_high"}
                      THEN r.cpu.pc - (IF fetched THEN 1 ELSE 0) ELSE -1,
                  !.loads = IF ok /\ r.cpu.at = "lda_yield" THEN @ + 1 ELSE @]

\* cpu = Cpu(memory)
NewCpu ==
    /\ ~Running
    /\ Len(cpus) < MaxCpus
    /\ cpus' = Append(cpus, NewCpuState(ram))
    /\ hist' = Append(hist, NewHist(NewCpuState(ram)))
    /\ last' = [op |-> "Cpu", arg |-> Len(cpus) + 1, value |-> 0,
                exc |-> "none"]
    /\ UNCHANGED <<main, ram, devices, tickpos, ticks, loaded, budget>>

\* clock = Clock([cpu.run() for each cpu constructed, in that order])
NewClock ==
    /\ ~Running
    /\ cpus # <<>>
    /\ devices' = [i \in 1..Len(cpus) |-> i]
    /\ last' = [op |-> "Clock", arg |-> Len(cpus), value |-> 0, exc |-> "none"]
    /\ UNCHANGED <<main, ram, cpus, tickpos, ticks, loaded, hist, budget>>

\* clock.tick() is called: the for loop is at its first device
TickCall ==
    /\ Running
    /\ tickpos = 0
    /\ ticks < MaxTicks
    /\ ticks' = ticks + 1
    /\ tickpos' = 1
    /\ last' = [op |-> "tick", arg |-> 0, value |-> 0, exc |-> "none"]
    /\ UNCHANGED <<main, ram, cpus, devices, loaded, hist, budget>>

\* A loop that leaves before its last device
LoopAdvance_short(pos, n, exc) ==
    IF exc # "none" \/ pos + 1 >= n THEN 0 ELSE pos + 1

\* for device in self._devices: the position after next(device) returned
\* or raised; 0 when tick() is left.
LoopAdvance(pos, n, exc) ==
    IF exc # "none" \/ pos = n THEN 0 ELSE pos + 1

\* One iteration of the loop of tick(): next(device).  An exception leaves
\* the loop and tick(); after the last device tick() returns.
TickBody ==
    /\ tickpos > 0
    /\ LET d == devices[tickpos]
           r == NextRun(cpus[d], ram)
       IN  /\ cpus' = [cpus EXCEPT ![d] = r.cpu]
           /\ ram' = r.ram
           /\ hist' = [hist EXCEPT ![d] = StepHist(@, cpus[d], r)]
           /\ tickpos' = LoopAdvance(tickpos, Len(devices), r.exc)
           /\ last' = [op |-> "next", arg |-> d, value |-> 0, exc |-> r.exc]
    /\ UNCHANGED <<devices, ticks, loaded, budget>>

TickStep == TickBody /\ UNCHANGED main

Next ==
    \/ \E data \in Images : LoadOs(data)
    \/ \E offset \in WriteAddrs, value \in WriteValues : WriteByte(offset, value)
    \/ NewCpu
    \/ NewClock
    \/ TickCall
    \/ TickStep

Spec == Init /\ [][Next]_vars

----------------------------------------------------------------------------
(* main(): the driving sequence on one file os.rom *)

InitMain ==
    /\ ram = EmptyRam
    /\ cpus = <<>>
    /\ devices = <<>>
    /\ tickpos = 0
    /\ ticks = 0
    /\ loaded = [len |-> 0, bytes |-> EmptyRam]
    /\ hist = <<>>
    /\ last = NoOp
    /\ budget = [loads |-> 0, writes |-> 0]
    /\ \E f \in Files :
          main = [pc |-> "load_rom", file |-> f, exc |-> "none",
                  where |-> "none"]

Raise(e) == [main EXCEPT !.pc = "raised", !.exc = e, !.where = main.pc]

\* memory = Memory(); load_rom('os.rom') is evaluated before load_os is
\* called with its result
MainLoadRom ==
    /\ main.pc = "load_rom"
    /\ main' = IF load_rom_raises(main.file) THEN Raise("RuntimeError")
               ELSE [main EXCEPT !.pc = "load_os"]
    /\ last' = [op |-> "load_rom", arg |-> main.file.len, value |-> 0,
                exc |-> main'.exc]
    /\ UNCHANGED <<ram, cpus, devices, tickpos, ticks, loaded, hist, budget>>

\* memory.load_os(data)
MainLoadOs ==
    /\ main.pc = "load_os"
    /\ ram' = load_os(ram, main.file)
    /\ loaded' = main.file
    /\ main' = IF load_os_raises(main.file) THEN Raise("IndexError")
               ELSE [main EXCEPT !.pc = "cpu"]
    /\ last' = [op |-> "load_os", arg |-> 0, value |-> 0, exc |-> main'.exc]
    /\ UNCHANGED <<cpus, devices, tickpos, ticks, hist, budget>>

\* cpu = Cpu(memory)
MainCpu ==
    /\ main.pc = "cpu"
    /\ cpus' = <<NewCpuState(ram)>>
    /\ hist' = <<NewHist(NewCpuState(ram))>>
    /\ main' = [main EXCEPT !.pc = "clock"]
    /\ last' = [op |-> "Cpu", arg |-> 1, value |-> 0, exc |-> "none"]
    /\ UNCHANGED <<ram, devices, tickpos, ticks, loaded, budget>>

\* clock = Clock([cpu.run()])
MainClock ==
    /\ main.pc = "clock"
    /\ devices' = <<1>>
    /\ main' = [main EXCEPT !.pc = "loop"]
    /\ last' = [op |-> "Clock", arg |-> 1, value |-> 0, exc |-> "none"]
    /\ UNCHANGED <<ram, cpus, tickpos, ticks, loaded, hist, budget>>

\* for cycle in range(10000): clock.tick() is called
MainTick ==
    /\ main.pc = "loop"
    /\ tickpos = 0
    /\ ticks < MainCycles
    /\ ticks' = ticks + 1
    /\ tickpos' = 1
    /\ last' = [op |-> "tick", arg |-> 0, value |-> 0, exc |-> "none"]
    /\ UNCHANGED <<main, ram, cpus, devices, loaded, hist, budget>>

\* The loop of tick() inside main(): an exception of next() is not caught
\* anywhere and ends main()
MainStep ==
    /\ main.pc = "loop"
    /\ TickBody
    /\ main' = IF last'.exc # "none" THEN Raise(last'.exc) ELSE main

NextMain ==
    \/ MainLoadRom
    \/ MainLoadOs
    \/ MainCpu
    \/ MainClock
    \/ MainTick
    \/ MainStep

SpecMain == InitMain /\ [][NextMain]_vars

----------------------------------------------------------------------------
(* The same sequence with a well-formed image and a Clock that is ticked
   until its executor fails *)

InitLive == InitMain /\ ~load_rom_raises(main.file)

\* clock.tick() is called, however many calls there have been
LiveTick ==
    /\ main.pc = "loop"
    /\ tickpos = 0
    /\ ticks < MaxLiveTicks
    /\ ticks' = ticks + 1
    /\ tickpos' = 1
    /\ last' = [op |-> "tick", arg |-> 0, value |-> 0, exc |-> "none"]
    /\ UNCHANGED <<main, ram, cpus, devices, loaded, hist, budget>>

NextLive ==
    \/ MainLoadRom
    \/ MainLoadOs
    \/ MainCpu
    \/ MainClock
    \/ LiveTick
    \/ MainStep

SpecLive == InitLive /\ [][NextLive]_vars /\ WF_vars(NextLive)

----------------------------------------------------------------------------
(* Properties *)

\* next() was called on device d in this step
Stepped(d) == last'.op = "next" /\ last'.arg = d

\* tick() is not in progress: the state is between two calls of tick()
BetweenTicks == Running /\ tickpos = 0

\* Device d is inside an instruction whose opcode is op
Executing(d, op) ==
    /\ cpus[d].at \notin {"start", "closed"}
    /\ cpus[d].opcode = op

\* C1: with reset vector 0xC000 and A9 42 8D 00 00 at 0xC000, after exactly
\* 6 calls of tick() on a Clock holding that one executor, A == 0x42, zero
\* and negative are false and read_byte(0x0000) == 0x42.
C1_SixTicksRunLdaSta ==
    (/\ BetweenTicks
     /\ Len(devices) = 1
     /\ ticks = 6
     /\ hist[1].reset_pc = 49152
     /\ \A i \in 1..5 :
           read_byte(ram, 49151 + i) = <<169, 66, 141, 0, 0>>[i])
    => (/\ cpus[1].a = 66
        /\ cpus[1].zero = FALSE
        /\ cpus[1].negative = 0
        /\ read_byte(ram, 0) = 66)

\* C2: a write_byte to an address in 0x8000..0xFFFF changes nothing in
\* memory, and no cycle-step of a CPU changes the byte read at any address
\* in 0x8000..0xFFFF.
C2_UpperHalfWriteProtected ==
    [][/\ (last'.op = "write_byte" /\ last'.arg >= WriteLimit
                                  /\ last'.arg < RamSize) => ram' = ram
       /\ last'.op = "next" =>
             \A z \in DOMAIN ram \cup DOMAIN ram' :
                 z >= WriteLimit => read_byte(ram', z) = read_byte(ram, z)]_vars

\* C2 witness: a STA of a non-zero A to 0x8000 has completed and 0x8000
\* still reads 0
C2_Witness ==
    \E d \in DOMAIN cpus :
        /\ cpus[d].at = "sta_yield"
        /\ hist[d].store_addr = WriteLimit
        /\ cpus[d].a # 0
        /\ read_byte(ram, WriteLimit) = 0

\* C3: for an address in 0x0000..0x7FFF, write_byte(a, v) followed by
\* read_byte(a) returns v.
C3_WriteThenRead ==
    (last.op = "write_byte" /\ last.arg >= 0 /\ last.arg < WriteLimit)
    => read_byte(ram, last.arg) = last.value

\* C3 witness: 0x42 has been written to 0x7FFF
C3_Witness ==
    last.op = "write_byte" /\ last.arg = 32767 /\ last.value = 66

\* C4: an opcode outside the four handled ones raises RuntimeError in the
\* call of next() that follows the fetch (the fetch itself returns), no
\* other call raises it, and a generator that has failed changes nothing
\* any more: its Cpu and the memory stay as they are.
C4_UnknownOpcodeStops ==
    [][\A d \in DOMAIN cpus :
          /\ Stepped(d) =>
                /\ (last'.exc = "RuntimeError") <=>
                       (cpus[d].at = "run_yield" /\ cpus[d].opcode \notin Handled)
                /\ (last'.exc = "RuntimeError") =>
                       /\ hist[d].fetch_step > 0
                       /\ hist[d].steps = hist[d].fetch_step
                       /\ cpus'[d].at = "closed"
          /\ cpus[d].at = "closed" =>
                /\ cpus'[d] = cpus[d]
                /\ hist'[d].steps = hist[d].steps
                /\ Stepped(d) => (ram' = ram /\ last'.exc = "StopIteration")]_vars

\* C4 witness: next() has been called on a generator that had failed
C4_Witness ==
    /\ last.op = "next"
    /\ last.exc = "StopIteration"
    /\ cpus[last.arg].at = "closed"
    /\ hist[last.arg].calls > hist[last.arg].steps + 1

NoneFailed == \A d \in DOMAIN cpus : cpus[d].at # "closed"

\* C5: as long as no executor fails, each tick() gives each executor one
\* cycle-step, in registration order: inside tick() the devices before the
\* loop position have as many cycle-steps as there were calls of tick(),
\* the others one fewer, and after n calls each has exactly n.
C5_OneStepEachPerTick ==
    (Running /\ NoneFailed) =>
        \A j \in DOMAIN devices :
            /\ hist[devices[j]].steps =
                  IF tickpos = 0 \/ j < tickpos THEN ticks ELSE ticks - 1
            /\ hist[devices[j]].calls = hist[devices[j]].steps

\* C5 witness: two executors, eight calls of tick() returned, none failed
C5_Witness ==
    /\ BetweenTicks
    /\ Len(devices) = 2
    /\ NoneFailed
    /\ ticks = 8
    /\ hist[1].steps = 8
    /\ hist[2].steps = 8

\* C6: a failure of one executor leaves the others with one cycle-step per
\* tick(): between two calls of tick() every executor that has not failed
\* has as many cycle-steps as there were calls of tick().
C6_OthersUnaffected ==
    BetweenTicks =>
        \A d \in DOMAIN cpus :
            cpus[d].at # "closed" => hist[d].steps = ticks

\* C7: LDA immediate takes 2 cycle-steps with its fetch: once the step
\* after the fetch has completed, A holds the operand and zero/negative
\* follow it, and the step after that is the next fetch.
C7_LdaTwoCycles ==
    \A d \in DOMAIN cpus :
        Executing(d, OP_LDA_IMM) =>
            /\ hist[d].steps <= hist[d].fetch_step + 1
            /\ hist[d].steps = hist[d].fetch_step + 1 =>
                  /\ cpus[d].a = read_byte(ram, hist[d].fetch_pc + 1)
                  /\ cpus[d].zero = (cpus[d].a = 0)
                  /\ cpus[d].negative = setzn_negative(cpus[d].a)

\* C8: STA absolute takes 4 cycle-steps with its fetch at step k: step k+1
\* reads the low address byte, step k+2 the high one, neither writes;
\* step k+3 stores A at low + 256 * high; step k+4 is the next fetch.
C8_StaFourCycles ==
    [][\A d \in DOMAIN cpus :
          (Stepped(d) /\ Executing(d, OP_STA_ABS)) =>
              LET c == cpus[d]
                  h == hist[d]
                  k == hist[d].fetch_step
                  addr == cpus[d].low_addr + 256 * cpus[d].result
              IN  /\ last'.exc = "none"
                  /\ h.steps \in k..(k + 3)
                  /\ h.steps = k =>
                        /\ cpus'[d].result = read_byte(ram, h.fetch_pc + 1)
                        /\ hist'[d].fetch_step = k
                        /\ ram' = ram
                  /\ h.steps = k + 1 =>
                        /\ cpus'[d].low_addr = c.result
                        /\ cpus'[d].result = read_byte(ram, h.fetch_pc + 2)
                        /\ hist'[d].fetch_step = k
                        /\ ram' = ram
                  /\ h.steps = k + 2 =>
                        /\ hist'[d].store_addr = addr
                        /\ addr < WriteLimit => read_byte(ram', addr) = c.a
                        /\ hist'[d].fetch_step = k
                  /\ h.steps = k + 3 =>
                        /\ hist'[d].fetch_step = k + 4
                        /\ hist'[d].fetch_pc = h.fetch_pc + 3
                        /\ cpus'[d].opcode = read_byte(ram, h.fetch_pc + 3)]_vars

\* C8 witness: a STA of 0x42 to 0x0001 has stored, three steps after its
\* fetch
C8_Witness ==
    \E d \in DOMAIN cpus :
        /\ Executing(d, OP_STA_ABS)
        /\ hist[d].steps = hist[d].fetch_step + 3
        /\ hist[d].store_addr = 1
        /\ cpus[d].a = 66
        /\ read_byte(ram, 1) = 66

\* C9: SEI fetched at PC: after 2 cycle-steps (the fetch and one more)
\* irq_disable is true, and the step after them fetches the opcode at
\* PC + 1; CLD likewise with decimal false.
C9_SeiCldTwoCycles ==
    [][\A d \in DOMAIN cpus :
          (Stepped(d) /\ (Executing(d, OP_SEI) \/ Executing(d, OP_CLD))) =>
              LET h == hist[d]
                  k == hist[d].fetch_step
              IN  /\ last'.exc = "none"
                  /\ h.steps \in k..(k + 1)
                  /\ h.steps = k =>
                        /\ hist'[d].steps = k + 1
                        /\ hist'[d].fetch_step = k
                        /\ cpus[d].opcode = OP_SEI => cpus'[d].irq_disable = TRUE
                        /\ cpus[d].opcode = OP_CLD => cpus'[d].decimal = FALSE
                  /\ h.steps = k + 1 =>
                        /\ cpus[d].opcode = OP_SEI => cpus[d].irq_disable = TRUE
                        /\ cpus[d].opcode = OP_CLD => cpus[d].decimal = FALSE
                        /\ hist'[d].fetch_step = k + 2
                        /\ hist'[d].fetch_pc = h.fetch_pc + 1
                        /\ cpus'[d].opcode = read_byte(ram, h.fetch_pc + 1)
                        /\ cpus'[d].pc = h.fetch_pc + 2]_vars

\* C9 witness: the CLD that follows a SEI has been fetched, two steps after
\* the fetch of the SEI, and irq_disable is true
C9_Witness ==
    \E d \in DOMAIN cpus :
        /\ Executing(d, OP_CLD)
        /\ hist[d].fetch_step = 3
        /\ hist[d].steps = 3
        /\ hist[d].fetch_pc = hist[d].reset_pc + 1
        /\ cpus[d].irq_disable = TRUE

\* C10: constructing a Cpu sets pc to read_byte(0xFFFC) +
\* 256 * read_byte(0xFFFD) and leaves memory as it is; after loading a
\* 16384-byte image with 0x00 at offset 0x3FFC and 0xC0 at 0x3FFD the
\* constructed pc is 0xC000.
C10_ResetVector ==
    [][last'.op = "Cpu" =>
          /\ ram' = ram
          /\ cpus'[last'.arg].pc =
                read_byte(ram, 65532) + 256 * read_byte(ram, 65533)
          /\ (/\ loaded.len = 16384
              /\ ImageByte(loaded, 16380) = 0
              /\ ImageByte(loaded, 16381) = 192) =>
                 cpus'[last'.arg].pc = 49152]_vars

\* C10 witness: a Cpu has been constructed on the image whose vector bytes
\* are 00 C0, and its pc is 0xC000
C10_Witness ==
    /\ last.op = "Cpu"
    /\ loaded.len = 16384
    /\ ImageByte(loaded, 16380) = 0
    /\ ImageByte(loaded, 16381) = 192
    /\ cpus[last.arg].pc = 49152
    /\ cpus[last.arg].at = "start"

\* C11: for the byte v that setzn is applied to, afterwards zero == (v == 0)
\* and negative == ((v & 0x80) != 0), decimal and irq_disable are as
\* before, and the value returned (stored in A) is v masked to 8 bits.
C11_SetznFlags ==
    [][\A d \in DOMAIN cpus :
          (Stepped(d) /\ cpus[d].at = "lda_read") =>
              LET v == cpus[d].result
              IN  /\ cpus'[d].zero = (v = 0)
                  /\ cpus'[d].negative = PyBool(Bit7(v))
                  /\ cpus'[d].decimal = cpus[d].decimal
                  /\ cpus'[d].irq_disable = cpus[d].irq_disable
                  /\ cpus'[d].a = v % 256]_vars

\* C12: two Memory objects share no state: whatever is done through the
\* Memory the Cpus are built on (write_byte, load_os, cycle-steps), every
\* read_byte on a second Memory returns what it returned before.
C12_NoAliasing ==
    [][last'.op \in {"write_byte", "load_os", "next"} =>
          \A z \in DOMAIN OtherMemory \cup DOMAIN OtherMemory' :
              read_byte(OtherMemory', z) = read_byte(OtherMemory, z)]_vars

\* C13: when next() raises RuntimeError for the opcode fetched at p, the
\* Cpu is as the fetch left it: pc == p + 1, and A, X, Y, S, the four flags
\* and the memory are not changed by the failing call.
C13_FailureKeepsState ==
    [][\A d \in DOMAIN cpus :
          (Stepped(d) /\ last'.exc = "RuntimeError") =>
              /\ cpus'[d].pc = hist[d].fetch_pc + 1
              /\ cpus'[d] = [cpus[d] EXCEPT !.at = "closed"]
              /\ \A f \in {"a", "x", "y", "s", "zero", "negative",
                           "irq_disable", "decimal"} :
                     cpus'[d][f] = cpus[d][f]
              /\ ram' = ram]_vars

\* C13 witness: a Cpu that had loaded 0x42 and stored it has failed, its pc
\* one past the address of the opcode
C13_Witness ==
    /\ last.op = "next"
    /\ last.exc = "RuntimeError"
    /\ cpus[last.arg].a = 66
    /\ hist[last.arg].store_step > 0
    /\ cpus[last.arg].pc = hist[last.arg].fetch_pc + 1

\* C15: cycle-steps of the devices of one Clock do not overlap.  When
\* next() is called on the device at position j, every device before it
\* has completed its step of this tick and is not touched, no device from j
\* on has had its call of this tick, and a byte that the device just before
\* j stored in its step of this tick is what device j reads at that address.
C15_StepsDoNotOverlap ==
    [][\A j \in DOMAIN devices :
          Stepped(devices[j]) =>
              /\ tickpos = j
              /\ \A i \in DOMAIN devices :
                    /\ i < j => /\ hist[devices[i]].steps = ticks
                                /\ hist'[devices[i]] = hist[devices[i]]
                                /\ cpus'[devices[i]] = cpus[devices[i]]
                    /\ i >= j => hist[devices[i]].calls <= ticks - 1
              /\ hist[devices[j]].calls = ticks - 1
              /\ j > 1 =>
                    LET a == devices[j - 1]
                        b == devices[j]
                        got == IF cpus'[b].at = "run_yield"
                               THEN cpus'[b].opcode ELSE cpus'[b].result
                    IN  (/\ hist[a].store_step = ticks
                         /\ hist[a].store_addr < WriteLimit
                         /\ hist'[b].read_addr >= 0
                         /\ hist'[b].read_addr % RamSize = hist[a].store_addr)
                        => got = cpus[a].a]_vars

\* C15 witness: in tick 7 the first device stored 0x42 at 0x0001 and the
\* second one, having passed 0xFFFF, fetched its opcode at 0x0001 and got
\* 0x42
C15_Witness ==
    /\ BetweenTicks
    /\ Len(devices) = 2
    /\ ticks = 7
    /\ hist[devices[1]].store_step = 7
    /\ hist[devices[1]].store_addr = 1
    /\ cpus[devices[1]].a = 66
    /\ hist[devices[2]].fetch_step = 7
    /\ hist[devices[2]].read_addr = RamSize + 1
    /\ cpus[devices[2]].opcode = 66

\* C16: in every state pc is in 0..0xFFFF and A, X, Y, S are in 0..0xFF.
C16_RegisterWidths ==
    \A d \in DOMAIN cpus :
        /\ cpus[d].pc \in 0..65535
        /\ cpus[d].a \in 0..255
        /\ cpus[d].x \in 0..255
        /\ cpus[d].y \in 0..255
        /\ cpus[d].s \in 0..255

\* C17: a cycle-step changes irq_disable only if it is SEI's, decimal only
\* if it is CLD's, A, zero or negative only if it is LDA's, memory only if
\* it is STA's and then at the one target address; X, Y and S never change,
\* and neither does the Cpu of any other device.
C17_EffectFrames ==
    [][\A d \in DOMAIN cpus :
          Stepped(d) =>
              LET c == cpus[d]
                  n == cpus'[d]
              IN  /\ n.irq_disable # c.irq_disable => Executing(d, OP_SEI)
                  /\ n.decimal # c.decimal => Executing(d, OP_CLD)
                  /\ (n.a # c.a \/ n.zero # c.zero \/ n.negative # c.negative)
                        => Executing(d, OP_LDA_IMM)
                  /\ ram' # ram =>
                        /\ Executing(d, OP_STA_ABS)
                        /\ hist'[d].store_step = hist'[d].steps
                        /\ \A z \in DOMAIN ram \cup DOMAIN ram' :
                               z # hist'[d].store_addr =>
                                   read_byte(ram', z) = read_byte(ram, z)
                  /\ n.x = c.x /\ n.y = c.y /\ n.s = c.s
                  /\ \A e \in DOMAIN cpus : e # d => cpus'[e] = cpus[e]]_vars

\* C17 witness: LDA #0x42, STA 0x0001, LDA #0 and SEI have all had their
\* effect on one Cpu
C17_Witness ==
    \E d \in DOMAIN cpus :
        /\ cpus[d].at = "sei_yield"
        /\ cpus[d].irq_disable = TRUE
        /\ hist[d].loads = 2
        /\ cpus[d].a = 0
        /\ cpus[d].zero = TRUE
        /\ hist[d].store_addr = 1
        /\ read_byte(ram, 1) = 66

\* C18: once a Cpu has completed an LDA, in every state zero == (A == 0)
\* and negative == ((A & 0x80) != 0).
C18_FlagsFollowA ==
    \A d \in DOMAIN cpus :
        hist[d].loads > 0 =>
            /\ cpus[d].zero = (cpus[d].a = 0)
            /\ cpus[d].negative = PyBool(Bit7(cpus[d].a))

\* C19: decimal is false in every state of every Cpu, and irq_disable, once
\* true, stays true.
C19_DecimalClearIrqMonotone ==
    [][\A d \in DOMAIN cpus' :
          /\ cpus'[d].decimal = FALSE
          /\ (d \in DOMAIN cpus /\ cpus[d].irq_disable = TRUE)
                => cpus'[d].irq_disable = TRUE]_vars

\* C19 witness: a CLD has had its effect on a Cpu whose irq_disable a SEI
\* had set before
C19_Witness ==
    \E d \in DOMAIN cpus :
        /\ cpus[d].at = "cld_yield"
        /\ cpus[d].irq_disable = TRUE
        /\ cpus[d].decimal = FALSE
        /\ hist[d].steps >= 4

\* C14: in main() a file whose length is not 16384 makes load_rom raise
\* before anything is copied into memory, before a Cpu or a Clock exists
\* and before any tick; a file of 16384 bytes passes load_rom.
C14_BadRomFailsFirst ==
    main.pc \notin {"idle", "load_rom"} =>
        /\ main.file.len # RomSize =>
              /\ main.pc = "raised"
              /\ main.where = "load_rom"
              /\ main.exc = "RuntimeError"
              /\ ram = EmptyRam
              /\ loaded.len = 0
              /\ cpus = <<>>
              /\ devices = <<>>
              /\ ticks = 0
        /\ main.file.len = RomSize => main.where # "load_rom"

\* C14 witness: load_rom has raised on a file of 16385 bytes whose first
\* byte is not zero
C14_Witness ==
    /\ main.pc = "raised"
    /\ main.where = "load_rom"
    /\ main.file.len = 16385
    /\ ImageByte(main.file, 0) # 0
    /\ ram = EmptyRam

====
